---- MODULE Spec2Model ----
(***************************************************************************)
(* Model of the ramenbooth dashboard (src/unnamed/part_000, the variant    *)
(* with DRPCs; src/main.go is the earlier variant with the same loop).     *)
(*                                                                         *)
(* The bubbletea runtime is modelled by what the program relies on: the    *)
(* command returned by Init/Update is run in the background (one goroutine *)
(* per command of a tea.Batch), the value a command returns is delivered   *)
(* to Update as a message, messages are processed one at a time, and       *)
(* tea.Quit yields a QuitMsg that ends the loop when it is processed.      *)
(*                                                                         *)
(* m.clusters is a Go slice.  Init and Update have value receivers, so     *)
(* every copy of the model holds a slice header onto the SAME backing      *)
(* array, and updateClustersData(&m.clusters) hands the background poll a  *)
(* pointer onto it: a poll's assignments to c.status, c.namespaces and     *)
(* c.DRPCs are writes to the array View reads.  The variable m.clusters    *)
(* below is the content of that array.                                     *)
(***************************************************************************)
EXTENDS Integers, Sequences, FiniteSets, TLC

\* ------------------------------------------------------------------ bounds
MaxBatches == 2

\* longest namespace listing a remote answers with
MaxListing == 2

\* ------------------------------------------------------- program constants
NumClusters == 3

AllowedNamespaces ==
    {"ramen-system", "ramen-ops", "openshift-operators",
     "openshift-dr-system", "openshift-dr-ops"}

Keys == {"ctrl+c", "q", "up", "k", "down", "j", "x"}

\* ------------------------------------------------- inputs (remote answers)
ClientResults == {"ok", "nil"}

NodeListResults == {[err |-> FALSE], [err |-> TRUE]}

NamespaceListResults ==
    {[err |-> FALSE, items |-> <<"kube-system", "ramen-system">>]}

DRPCListResults ==
    {[err |-> FALSE, items |-> <<"drpc-a">>]}

WindowSizes == {[Width |-> 80, Height |-> 24]}

VARIABLES
    m,        \* the model: clusters (backing array), cursor, width, height
    polls,    \* the background poll batches started so far, in start order
    ticks,    \* tea.Tick timers scheduled or fired and not yet delivered
    phase,    \* "New", "Running", "Terminating", "Exited", "Crashed"
    gen       \* observer: per cluster and field, the batch that wrote it
              \* (0: the value of initialModel)

vars == <<m, polls, ticks, phase, gen>>

\* ---------------------------------------------------------- data model
newClusterInfo(name, context, hub, managedcluster) ==
    [name |-> name, status |-> "Unknown", context |-> context,
     namespaces |-> <<>>, DRPCs |-> <<>>,
     hub |-> hub, managedcluster |-> managedcluster]

initialModel ==
    [clusters |-> << newClusterInfo("Hub", "hub", TRUE, FALSE),
                     newClusterInfo("DR1", "dr1", FALSE, TRUE),
                     newClusterInfo("DR2", "dr2", FALSE, TRUE) >>,
     cursor |-> 0, width |-> 0, height |-> 0]

\* ------------------------------------------------------------- the poller
filterRamenNamespaces(items) ==
    SelectSeq(items, LAMBDA n : n \in AllowedNamespaces)

getNamespaces(res) == IF res.err THEN <<>> ELSE res.items

getRamenNamespaces(res) == filterRamenNamespaces(getNamespaces(res))

\* mutant: the role check of line 153 is missing
getDRPCs_NoRoleCheck(c, res) ==
    IF res.err THEN <<>> ELSE res.items

getDRPCs(c, res) ==
    IF ~c.hub THEN <<>>
    ELSE IF res.err THEN <<>>
    ELSE res.items

getClusterStatus(res) == IF res.err THEN "Error" ELSE "Healthy"

\* ------------------------------------------------------------ the commands
NilCmd == {}
QuitCmd == {"Quit"}
BatchCmd == {"updateClustersData", "tickCmd"}

ModelInit(mm) == BatchCmd

\* ------------------------------------------------------------ model.Update
\* mutant: "down" without the bound check of line 201
UpdateKey_NoClamp(mm, key) ==
    CASE key \in {"ctrl+c", "q"} -> [m |-> mm, cmd |-> QuitCmd]
      [] key \in {"up", "k"} ->
            [m |-> IF mm.cursor > 0
                   THEN [mm EXCEPT !.cursor = mm.cursor - 1] ELSE mm,
             cmd |-> NilCmd]
      [] key \in {"down", "j"} ->
            [m |-> [mm EXCEPT !.cursor = mm.cursor + 1], cmd |-> NilCmd]
      [] OTHER -> [m |-> mm, cmd |-> NilCmd]

\* mutant: the default of the key switch moves the cursor like "down"
UpdateKey_OtherMovesDown(mm, key) ==
    CASE key \in {"ctrl+c", "q"} -> [m |-> mm, cmd |-> QuitCmd]
      [] key \in {"up", "k"} ->
            [m |-> IF mm.cursor > 0
                   THEN [mm EXCEPT !.cursor = mm.cursor - 1] ELSE mm,
             cmd |-> NilCmd]
      [] OTHER ->
            [m |-> IF mm.cursor < Len(mm.clusters) - 1
                   THEN [mm EXCEPT !.cursor = mm.cursor + 1] ELSE mm,
             cmd |-> NilCmd]

UpdateKey(mm, key) ==
    CASE key \in {"ctrl+c", "q"} -> [m |-> mm, cmd |-> QuitCmd]
      [] key \in {"up", "k"} ->
            [m |-> IF mm.cursor > 0
                   THEN [mm EXCEPT !.cursor = mm.cursor - 1] ELSE mm,
             cmd |-> NilCmd]
      [] key \in {"down", "j"} ->
            [m |-> IF mm.cursor < Len(mm.clusters) - 1
                   THEN [mm EXCEPT !.cursor = mm.cursor + 1] ELSE mm,
             cmd |-> NilCmd]
      [] OTHER -> [m |-> mm, cmd |-> NilCmd]

\* mutant: the resize case also returns tickCmd()
Update_ResizeTicks(mm, msg) ==
    CASE msg.type = "[]clusterInfo" ->
            [m |-> [mm EXCEPT !.clusters = msg.value], cmd |-> NilCmd]
      [] msg.type = "tea.WindowSizeMsg" ->
            [m |-> [mm EXCEPT !.width = msg.Width, !.height = msg.Height],
             cmd |-> {"tickCmd"}]
      [] msg.type = "tea.KeyMsg" -> UpdateKey(mm, msg.key)
      [] msg.type = "time.Time" -> [m |-> mm, cmd |-> BatchCmd]
      [] OTHER -> [m |-> mm, cmd |-> NilCmd]

\* mutant: the resize case also resets the cursor
Update_ResizeResetsCursor(mm, msg) ==
    CASE msg.type = "[]clusterInfo" ->
            [m |-> [mm EXCEPT !.clusters = msg.value], cmd |-> NilCmd]
      [] msg.type = "tea.WindowSizeMsg" ->
            [m |-> [mm EXCEPT !.width = msg.Width, !.height = msg.Height,
                              !.cursor = 0],
             cmd |-> NilCmd]
      [] msg.type = "tea.KeyMsg" -> UpdateKey(mm, msg.key)
      [] msg.type = "time.Time" -> [m |-> mm, cmd |-> BatchCmd]
      [] OTHER -> [m |-> mm, cmd |-> NilCmd]

\* mutant: a batch message appends the polled clusters to m.clusters
Update_AppendsBatch(mm, msg) ==
    CASE msg.type = "[]clusterInfo" ->
            [m |-> [mm EXCEPT !.clusters = msg.value], cmd |-> NilCmd]
      [] msg.type = "*[]clusterInfo" ->
            [m |-> [mm EXCEPT !.clusters = mm.clusters \o mm.clusters],
             cmd |-> NilCmd]
      [] msg.type = "tea.WindowSizeMsg" ->
            [m |-> [mm EXCEPT !.width = msg.Width, !.height = msg.Height],
             cmd |-> NilCmd]
      [] msg.type = "tea.KeyMsg" -> UpdateKey(mm, msg.key)
      [] msg.type = "time.Time" -> [m |-> mm, cmd |-> BatchCmd]
      [] OTHER -> [m |-> mm, cmd |-> NilCmd]

\* mutant: the tick case returns tickCmd() alone
Update_TickOnlyTicks(mm, msg) ==
    CASE msg.type = "[]clusterInfo" ->
            [m |-> [mm EXCEPT !.clusters = msg.value], cmd |-> NilCmd]
      [] msg.type = "tea.WindowSizeMsg" ->
            [m |-> [mm EXCEPT !.width = msg.Width, !.height = msg.Height],
             cmd |-> NilCmd]
      [] msg.type = "tea.KeyMsg" -> UpdateKey(mm, msg.key)
      [] msg.type = "time.Time" -> [m |-> mm, cmd |-> {"tickCmd"}]
      [] OTHER -> [m |-> mm, cmd |-> NilCmd]

Update(mm, msg) ==
    CASE msg.type = "[]clusterInfo" ->
            [m |-> [mm EXCEPT !.clusters = msg.value], cmd |-> NilCmd]
      [] msg.type = "tea.WindowSizeMsg" ->
            [m |-> [mm EXCEPT !.width = msg.Width, !.height = msg.Height],
             cmd |-> NilCmd]
      [] msg.type = "tea.KeyMsg" -> UpdateKey(mm, msg.key)
      [] msg.type = "time.Time" -> [m |-> mm, cmd |-> BatchCmd]
      [] OTHER -> [m |-> mm, cmd |-> NilCmd]

\* ------------------------------------------------- messages of the program
TickMsg == [type |-> "time.Time"]
KeyMsg(k) == [type |-> "tea.KeyMsg", key |-> k]
WindowSizeMsg(s) ==
    [type |-> "tea.WindowSizeMsg", Width |-> s.Width, Height |-> s.Height]
\* the closure of updateClustersData returns `clusters`, a *[]clusterInfo
BatchMsg(b) == [type |-> "*[]clusterInfo", batch |-> b]

\* --------------------------------------------------- background poll state
NotPolled == [status |-> "-", namespaces |-> <<>>, DRPCs |-> <<>>]

\* i: index of the range loop; pc: the next line of updateClusterData;
\* out: observer, what this batch's own poll computed per cluster
NewPoll ==
    [i |-> 1, pc |-> "getClusterStatus",
     out |-> [t \in 1..NumClusters |-> NotPolled]]

\* mutant: updateClustersData runs its loop before returning, so the poll
\* is over when Update returns
updateClustersData_Inline(ps) ==
    Append(ps, [NewPoll EXCEPT !.i = NumClusters, !.pc = "msg"])

\* updateClustersData(&m.clusters) returns the closure; the runtime runs it
\* in a goroutine of its own: one more poll, at its first line
updateClustersData(ps) == Append(ps, NewPoll)

Alive == phase \in {"Running", "Terminating"}

InFlight(b) == polls[b].pc \notin {"msg", "done", "panic"}

\* the runtime starts the commands of cmd, each in its own goroutine
RunCmd(cmd, ps, tk) ==
    /\ polls' = IF "updateClustersData" \in cmd
                THEN updateClustersData(ps) ELSE ps
    /\ ticks' = IF "tickCmd" \in cmd THEN tk + 1 ELSE tk
    /\ phase' = IF "Quit" \in cmd THEN "Terminating"
                ELSE IF phase = "New" THEN "Running" ELSE phase

Init ==
    /\ m = initialModel
    /\ polls = <<>>
    /\ ticks = 0
    /\ phase = "New"
    /\ gen = [t \in 1..NumClusters |->
                [status |-> 0, namespaces |-> 0, DRPCs |-> 0]]

\* p.Run calls m.Init() and starts its command
ProgramInit ==
    /\ phase = "New"
    /\ RunCmd(ModelInit(m), polls, ticks)
    /\ UNCHANGED <<m, gen>>

\* the event loop hands msg to Update and starts the returned command
Deliver(msg, ps, tk) ==
    LET r == Update(m, msg) IN
    /\ m' = r.m
    /\ RunCmd(r.cmd, ps, tk)
    /\ UNCHANGED gen

TickElapsed ==
    /\ Alive
    /\ ticks > 0
    /\ Len(polls) < MaxBatches
    /\ Deliver(TickMsg, polls, ticks - 1)

BatchArrived(b) ==
    /\ Alive
    /\ polls[b].pc = "msg"
    /\ Deliver(BatchMsg(b),
               [polls EXCEPT ![b].pc = "done",
                             ![b].out = [t \in 1..NumClusters |-> NotPolled]],
               ticks)

KeyPressed(k) ==
    /\ Alive
    /\ Deliver(KeyMsg(k), polls, ticks)

Resized(s) ==
    /\ Alive
    /\ Deliver(WindowSizeMsg(s), polls, ticks)

\* the event loop processes the QuitMsg of tea.Quit and returns
QuitMsgProcessed ==
    /\ phase = "Terminating"
    /\ phase' = "Exited"
    /\ UNCHANGED <<m, polls, ticks, gen>>

\* ------------------------------------------------ updateClusterData, by line
\* One assignment of batch b to field f of cluster i, and where b goes next.
\* obs switches the observer (gen, out) on.
Assign(b, i, f, v, nexti, nextpc, obs) ==
    /\ m' = [m EXCEPT !.clusters[i][f] = v]
    /\ polls' = [polls EXCEPT
                   ![b].i = nexti,
                   ![b].pc = nextpc,
                   ![b].out[i][f] = IF obs THEN v ELSE @]
    /\ gen' = IF obs THEN [gen EXCEPT ![i][f] = b] ELSE gen
    /\ UNCHANGED <<ticks, phase>>

\* kclient := fetchClusterClient(c.context) returns nil;
\* if kclient == nil { c.status = "Error"
ClientNilSetError(b, obs) ==
    LET i == polls[b].i IN
    /\ Alive
    /\ polls[b].pc = "getClusterStatus"
    /\ "nil" \in ClientResults
    /\ Assign(b, i, "status", "Error", i, "setEmpty", obs)

\* c.namespaces = []string{} }   (no return follows)
ClientNilSetEmpty(b, obs) ==
    LET i == polls[b].i IN
    /\ Alive
    /\ polls[b].pc = "setEmpty"
    /\ Assign(b, i, "namespaces", <<>>, i, "nilDeref", obs)

\* c.status = getClusterStatus(c, kclient): kclient.List on a nil interface
\* panics in the command's goroutine, which ends the program
GetClusterStatusPanic(b) ==
    /\ Alive
    /\ polls[b].pc = "nilDeref"
    /\ polls' = [polls EXCEPT ![b].pc = "panic"]
    /\ phase' = "Crashed"
    /\ UNCHANGED <<m, ticks, gen>>

\* kclient := fetchClusterClient(c.context) returns a client;
\* c.status = getClusterStatus(c, kclient)
GetClusterStatus(b, obs) ==
    LET i == polls[b].i IN
    /\ Alive
    /\ polls[b].pc = "getClusterStatus"
    /\ "ok" \in ClientResults
    /\ \E res \in NodeListResults :
          Assign(b, i, "status", getClusterStatus(res),
                 i, "getRamenNamespaces", obs)

\* c.namespaces = getRamenNamespaces(c, kclient)
GetRamenNamespaces(b, obs) ==
    LET i == polls[b].i IN
    /\ Alive
    /\ polls[b].pc = "getRamenNamespaces"
    /\ \E res \in NamespaceListResults :
          Assign(b, i, "namespaces", getRamenNamespaces(res),
                 i, "getDRPCs", obs)

\* c.DRPCs = getDRPCs(c, kclient); then the next i of the range loop, or
\* the closure returns clusters
GetDRPCs(b, obs) ==
    LET i == polls[b].i IN
    /\ Alive
    /\ polls[b].pc = "getDRPCs"
    /\ \E res \in DRPCListResults :
          Assign(b, i, "DRPCs", getDRPCs(m.clusters[i], res),
                 IF i < Len(m.clusters) THEN i + 1 ELSE i,
                 IF i < Len(m.clusters) THEN "getClusterStatus" ELSE "msg",
                 obs)

\* ---------------------------------------------------------- specifications
\* the program with its user
Next ==
    \/ ProgramInit
    \/ TickElapsed
    \/ \E b \in 1..Len(polls) : BatchArrived(b)
    \/ \E k \in Keys : KeyPressed(k)
    \/ \E s \in WindowSizes : Resized(s)
    \/ QuitMsgProcessed
    \/ \E b \in 1..Len(polls) : ClientNilSetError(b, FALSE)
    \/ \E b \in 1..Len(polls) : ClientNilSetEmpty(b, FALSE)
    \/ \E b \in 1..Len(polls) : GetClusterStatusPanic(b)
    \/ \E b \in 1..Len(polls) : GetClusterStatus(b, FALSE)
    \/ \E b \in 1..Len(polls) : GetRamenNamespaces(b, FALSE)
    \/ \E b \in 1..Len(polls) : GetDRPCs(b, FALSE)

Spec == Init /\ [][Next]_vars

\* the program with an idle user (no key, no resize), observer on
NextObs ==
    \/ ProgramInit
    \/ TickElapsed
    \/ \E b \in 1..Len(polls) : BatchArrived(b)
    \/ \E b \in 1..Len(polls) : ClientNilSetError(b, TRUE)
    \/ \E b \in 1..Len(polls) : ClientNilSetEmpty(b, TRUE)
    \/ \E b \in 1..Len(polls) : GetClusterStatusPanic(b)
    \/ \E b \in 1..Len(polls) : GetClusterStatus(b, TRUE)
    \/ \E b \in 1..Len(polls) : GetRamenNamespaces(b, TRUE)
    \/ \E b \in 1..Len(polls) : GetDRPCs(b, TRUE)

SpecObs == Init /\ [][NextObs]_vars

\* ------------------------------------- the poller on any namespace listing
\* names a remote may list: two of the allowed ones and one that is not
NamespaceNames == {"ramen-system", "openshift-dr-ops", "kube-system"}

\* the answers of the namespace listing: an error, or any listing of up to
\* MaxListing names, in any order and with duplicates
NamespaceListings ==
    {[err |-> TRUE, items |-> <<>>]} \cup
    {[err |-> FALSE, items |-> l] :
        l \in UNION {[1..n -> NamespaceNames] : n \in 0..MaxListing}}

\* a poll batch that also keeps, per cluster, the answer its namespace
\* listing got (observer): empty before the listing, then {answer}
ListedPoll ==
    [i |-> 1, pc |-> "getClusterStatus",
     out |-> [t \in 1..NumClusters |-> NotPolled],
     listed |-> [t \in 1..NumClusters |-> {}]]

\* Init of either variant: the first batch starts, the first tick is
\* scheduled
ProgramInitListed ==
    /\ phase = "New"
    /\ polls' = <<ListedPoll>>
    /\ ticks' = ticks + 1
    /\ phase' = "Running"
    /\ UNCHANGED <<m, gen>>

\* c.namespaces = v, where the listing answered res; then pc and i move on
AssignListed(b, i, res, v, nexti, nextpc) ==
    /\ m' = [m EXCEPT !.clusters[i].namespaces = v]
    /\ polls' = [polls EXCEPT
                   ![b].i = nexti,
                   ![b].pc = nextpc,
                   ![b].out[i].namespaces = v,
                   ![b].listed[i] = {res}]
    /\ UNCHANGED <<ticks, phase, gen>>

\* part_000: c.namespaces = getRamenNamespaces(c, kclient)
GetRamenNamespacesListed(b) ==
    LET i == polls[b].i IN
    /\ Alive
    /\ polls[b].pc = "getRamenNamespaces"
    /\ \E res \in NamespaceListings :
          AssignListed(b, i, res, getRamenNamespaces(res), i, "getDRPCs")

\* the first batch of part_000 with every namespace listing
NextListed ==
    \/ ProgramInitListed
    \/ \E b \in 1..Len(polls) : ClientNilSetError(b, TRUE)
    \/ \E b \in 1..Len(polls) : ClientNilSetEmpty(b, TRUE)
    \/ \E b \in 1..Len(polls) : GetClusterStatusPanic(b)
    \/ \E b \in 1..Len(polls) : GetClusterStatus(b, TRUE)
    \/ \E b \in 1..Len(polls) : GetRamenNamespacesListed(b)
    \/ \E b \in 1..Len(polls) : GetDRPCs(b, TRUE)

SpecListed == Init /\ [][NextListed]_vars

\* src/main.go: the names filterRamenNamespaces compares with
mainGoAllowedNamespaces ==
    {"ramen-system", "ramen-ops", "openshift-operators",
     "openshift-dr-system"}

\* src/main.go: filterRamenNamespaces
mainGoFilterRamenNamespaces(items) ==
    SelectSeq(items, LAMBDA n : n \in mainGoAllowedNamespaces)

\* src/main.go: getRamenNamespaces
mainGoGetRamenNamespaces(res) ==
    mainGoFilterRamenNamespaces(getNamespaces(res))

\* src/main.go: c.namespaces = getRamenNamespaces(client) is the last line
\* of updateClusterData; then the next i of the range loop, or the closure
\* of fetchClustersData returns clusters
MainGoGetRamenNamespaces(b) ==
    LET i == polls[b].i IN
    /\ Alive
    /\ polls[b].pc = "getRamenNamespaces"
    /\ \E res \in NamespaceListings :
          AssignListed(b, i, res, mainGoGetRamenNamespaces(res),
                       IF i < Len(m.clusters) THEN i + 1 ELSE i,
                       IF i < Len(m.clusters) THEN "getClusterStatus"
                                              ELSE "msg")

\* the first batch of src/main.go with every namespace listing (its
\* clusters have no DRPCs: the field keeps its initial empty list)
NextMainGo ==
    \/ ProgramInitListed
    \/ \E b \in 1..Len(polls) : ClientNilSetError(b, TRUE)
    \/ \E b \in 1..Len(polls) : ClientNilSetEmpty(b, TRUE)
    \/ \E b \in 1..Len(polls) : GetClusterStatusPanic(b)
    \/ \E b \in 1..Len(polls) : GetClusterStatus(b, TRUE)
    \/ \E b \in 1..Len(polls) : MainGoGetRamenNamespaces(b)

SpecMainGo == Init /\ [][NextMainGo]_vars

\* ------------------------------------------------------------------ claims
StatusOf(c) ==
    [status |-> c.status, namespaces |-> c.namespaces, DRPCs |-> c.DRPCs]

\* the step is Update processing the message of batch b
IsBatchArrived(b) == polls[b].pc = "msg" /\ polls'[b].pc = "done"

\* C1: every cluster's status, namespaces and DRPCs, as far as polls have
\* produced them, come from one and the same poll batch (generation).
C1_SameGeneration ==
    \A t \in 1..NumClusters :
        Cardinality({gen[t].status, gen[t].namespaces, gen[t].DRPCs} \ {0}) <= 1

\* C2: the cluster statuses of the model change only in the Update step that
\* processes a batch message, never in a step of a running poll.
C2_StatusesChangeOnlyOnBatchArrived ==
    [][m.clusters' # m.clusters =>
          \E b \in 1..Len(polls) : IsBatchArrived(b)]_vars

\* C3: right after Update has processed the message of batch b, every
\* cluster's status is what batch b's own poll computed for it, and the step
\* started no command.
C3_BatchAppliedWholesale ==
    [][\A b \in 1..Len(polls) :
          IsBatchArrived(b) =>
              /\ \A t \in 1..NumClusters :
                    StatusOf(m'.clusters[t]) = polls[b].out[t]
              /\ Len(polls') = Len(polls)
              /\ ticks' = ticks]_vars

\* batch b has gone through updateClusterData for cluster t
Polled(b, t) == t < polls[b].i \/ polls[b].pc \in {"msg", "done"}

\* client construction failed for cluster t in batch b
ClientFailed(b, t) ==
    polls[b].i = t /\ polls[b].pc \in {"setEmpty", "nilDeref", "panic"}

\* C4: in a batch that has stopped, a cluster whose client construction
\* failed has kept no other cluster from being polled in that batch.
C4_ConnectionErrorIsolated ==
    \A b \in 1..Len(polls) : \A ta, tb \in 1..NumClusters :
        (ta # tb /\ ClientFailed(b, ta) /\ ~InFlight(b)) => Polled(b, tb)

\* C5: no connection or remote-call error of a poll takes the dashboard out
\* of normal operation: no crashed state is reachable.
C5_NeverCrashes == phase \in {"New", "Running", "Terminating", "Exited"}

\* C6: every secondary cluster (not the hub) has an empty DRPCs list in
\* every reachable state.
C6_SecondaryHasNoDRPCs ==
    \A t \in 1..NumClusters :
        ~m.clusters[t].hub => m.clusters[t].DRPCs = <<>>

\* a poll has run getDRPCs for DR1 while the remote listing returns names
\* (the hub shows them)
C6_Witness ==
    /\ \E b \in 1..Len(polls) : Polled(b, 2)
    /\ m.clusters[1].DRPCs # <<>>
    /\ m.clusters[2].DRPCs = <<>>

\* C7: once a quit key has been processed, no later step starts a poll batch
\* or schedules a tick.
C7_NoCommandsAfterQuit ==
    [][phase = "Terminating" =>
          /\ Len(polls') = Len(polls)
          /\ ticks' <= ticks]_vars

\* the cursor Update must leave after key k
CursorAfter(k) ==
    IF k \in {"up", "k"}
    THEN (IF m.cursor = 0 THEN 0 ELSE m.cursor - 1)
    ELSE IF k \in {"down", "j"}
    THEN (IF m.cursor = Len(m.clusters) - 1 THEN m.cursor ELSE m.cursor + 1)
    ELSE m.cursor

\* C8: the cursor stays within 0..N-1; move-up at 0 and move-down at N-1
\* leave it unchanged, every other move changes it by exactly one, and no
\* other event changes it.
C8_CursorInRange ==
    /\ m.cursor \in 0..(Len(m.clusters) - 1)
    /\ [][/\ m'.cursor \in 0..(Len(m'.clusters) - 1)
          /\ \A k \in Keys : m'.cursor = CursorAfter(k) \/ ~KeyPressed(k)
          /\ m'.cursor = m.cursor \/ \E k \in Keys : KeyPressed(k)]_vars

\* move-down keys have taken the cursor to the last cluster
C8_Witness == m.cursor = Len(m.clusters) - 1 /\ Len(m.clusters) = NumClusters

\* C9: at most one tick is scheduled or pending delivery.
C9_AtMostOneTick == ticks <= 1

\* a tick has been processed and rescheduled while the first batch is
\* still polling
C9_Witness == Len(polls) >= 2 /\ InFlight(1) /\ ticks = 1

\* an Update/Init step leaves every poll where it is: it may start a poll at
\* its first line and take the message of a finished one, nothing else
PollsNotAdvanced ==
    /\ Len(polls') \in {Len(polls), Len(polls) + 1}
    /\ \A b \in 1..Len(polls') :
          IF b <= Len(polls)
          THEN \/ polls'[b] = polls[b]
               \/ IsBatchArrived(b)
          ELSE polls'[b] = NewPoll

UpdateStep ==
    \/ ProgramInit
    \/ TickElapsed
    \/ \E b \in 1..Len(polls) : BatchArrived(b)
    \/ \E k \in Keys : KeyPressed(k)
    \/ \E s \in WindowSizes : Resized(s)

\* C10: while the program runs and a poll batch is in flight, Update can
\* process a key or a resize, and no Init/Update step executes a line of
\* a poll.
C10_UpdateNeverBlocksOnPoll ==
    /\ []((phase = "Running" /\ \E b \in 1..Len(polls) : InFlight(b)) =>
            /\ \A k \in Keys : ENABLED KeyPressed(k)
            /\ \A s \in WindowSizes : ENABLED Resized(s))
    /\ [][UpdateStep => PollsNotAdvanced]_vars

\* a key and a resize have been processed while the first batch is polling
C10_Witness ==
    /\ phase = "Running"
    /\ InFlight(1)
    /\ m.cursor > 0
    /\ m.width > 0

\* C11: processing a resize changes the width and height of the model and
\* nothing else: the cursor, every cluster's status, namespaces and DRPCs,
\* the polls, the ticks and the phase stay, so no command is started.
C11_ResizeOnlyViewport ==
    [][\A s \in WindowSizes :
          \/ ~Resized(s)
          \/ /\ m' = [m EXCEPT !.width = s.Width, !.height = s.Height]
             /\ UNCHANGED <<polls, ticks, phase, gen>>]_vars

\* a resize has been processed after a key moved the cursor and a poll
\* wrote a status
C11_Witness ==
    /\ m.width = 80 /\ m.height = 24
    /\ m.cursor > 0
    /\ \E t \in 1..NumClusters : m.clusters[t].status # "Unknown"

QuitKeys == {"ctrl+c", "q"}

\* C12, as claimed: every key other than q, ctrl+c, up and down leaves the
\* whole state unchanged and starts no command.
C12_KeysOtherThanQuitUpDownNoOp ==
    [][\A k \in Keys \ (QuitKeys \cup {"up", "down"}) :
          ~KeyPressed(k) \/ UNCHANGED vars]_vars

\* C12, amended: every key other than q, ctrl+c, up, k, down and j leaves
\* the whole state unchanged and starts no command.
C12_OtherKeysNoOp ==
    [][\A k \in Keys \ (QuitKeys \cup {"up", "k", "down", "j"}) :
          ~KeyPressed(k) \/ UNCHANGED vars]_vars

\* key x can be processed in a state with a moved cursor, a resized
\* viewport and a polled status
C12_Witness ==
    /\ ENABLED KeyPressed("x")
    /\ m.cursor = 1
    /\ m.width > 0
    /\ m.clusters[1].status = "Healthy"

\* C13: the model holds one entry per cluster of initialModel, in its order,
\* each with the name, context and role flags it started with.
C13_RegistryFixed ==
    /\ Len(m.clusters) = Len(initialModel.clusters)
    /\ \A t \in 1..Len(m.clusters) :
          /\ m.clusters[t].name = initialModel.clusters[t].name
          /\ m.clusters[t].context = initialModel.clusters[t].context
          /\ m.clusters[t].hub = initialModel.clusters[t].hub
          /\ m.clusters[t].managedcluster
                = initialModel.clusters[t].managedcluster

\* a whole batch has polled every cluster and its message was processed
C13_Witness ==
    /\ \E b \in 1..Len(polls) : polls[b].pc = "done"
    /\ \A t \in 1..NumClusters : m.clusters[t].status # "Unknown"

\* batch b is past the if-block of updateClusterData with a nil client: at
\* the call of getClusterStatus, or in the panic that call ends in
ProbeAfterClientFailure(b) == polls[b].pc \in {"nilDeref", "panic"}

\* C14: when client construction fails, the poll of that cluster returns
\* from inside the nil check: no poll reaches the health probe with a nil
\* client.
C14_ClientFailureReturns ==
    \A b \in 1..Len(polls) : ~ProbeAfterClientFailure(b)

\* what batch b's own poll computed for cluster t
Outcome(b, t) == polls[b].out[t]

\* C15: a poll whose health probe made the status "Error" leaves that
\* cluster's namespaces and DRPCs empty: an outcome with status "Error" has
\* empty lists.
C15_ErrorHasEmptyLists ==
    \A b \in 1..Len(polls) : \A t \in 1..NumClusters :
        Outcome(b, t).status = "Error" =>
            /\ Outcome(b, t).namespaces = <<>>
            /\ Outcome(b, t).DRPCs = <<>>

\* batches a and b are both in updateClusterData for the same cluster, each
\* with assignments to that cluster's entry still to make
WriteSameEntry(a, b) ==
    /\ a # b
    /\ InFlight(a) /\ InFlight(b)
    /\ polls[a].i = polls[b].i

\* C16: no two poll batches are at work on the entry of the same cluster at
\* the same time.
C16_NoTwoWriters ==
    \A a, b \in 1..Len(polls) : ~WriteSameEntry(a, b)

\* the step is Init's or a tick's and starts exactly one poll batch and
\* schedules exactly one tick, leaving the model as it was
EmitsOneOfEach ==
    /\ polls' = Append(polls, NewPoll)
    /\ m' = m
    /\ \/ ProgramInit /\ ticks' = ticks + 1
       \/ TickElapsed /\ ticks' = ticks

\* C17: Init and the processing of a tick, and no other step, start
\* commands: each starts exactly one poll batch and schedules exactly one
\* tick, and leaves the model as it was. Every other step leaves the number
\* of batches and of pending ticks alone, so the batches started are one
\* more than the ticks processed.
C17_OnlyInitAndTickEmit ==
    /\ [](phase = "New" => ENABLED EmitsOneOfEach)
    /\ []((Alive /\ ticks > 0 /\ Len(polls) < MaxBatches)
             => ENABLED EmitsOneOfEach)
    /\ [][IF Len(polls') # Len(polls)
          THEN EmitsOneOfEach
          ELSE ticks' = ticks /\ ~ProgramInit /\ ~TickElapsed]_vars

\* a tick has been processed: the second batch runs and the next tick is
\* scheduled, while the first batch's message has been processed
C17_Witness ==
    /\ Len(polls) >= 2
    /\ ticks = 1
    /\ polls[1].pc = "done"
    /\ InFlight(2)

\* C18: a batch delivers its message only after the loop has gone through
\* every cluster, and every batch that has stopped has delivered: none is
\* cut short.
C18_BatchPollsAllAndDelivers ==
    \A b \in 1..Len(polls) :
        /\ polls[b].pc \in {"msg", "done"} => polls[b].i = NumClusters
        /\ ~InFlight(b) => polls[b].pc \in {"msg", "done"}

\* C20: after a poll whose client construction failed has stopped, the
\* retry is still to come unless the user quit: the program is running with
\* a tick scheduled.
C20_RetryAfterConnectionError ==
    \A b \in 1..Len(polls) : \A t \in 1..NumClusters :
        (ClientFailed(b, t) /\ ~InFlight(b)) =>
            \/ phase \in {"Terminating", "Exited"}
            \/ phase = "Running" /\ ticks = 1

\* the names the allow-set is said to hold
ClaimedAllowSet ==
    {"ramen-system", "ramen-ops", "openshift-operators",
     "openshift-dr-system", "openshift-dr-ops"}

RECURSIVE AllowedSubsequence(_)
\* the names of listing l that are in the claimed allow-set, in the order
\* of l and as often as l has them
AllowedSubsequence(l) ==
    IF l = <<>> THEN <<>>
    ELSE (IF Head(l) \in ClaimedAllowSet THEN <<Head(l)>> ELSE <<>>)
            \o AllowedSubsequence(Tail(l))

\* C19: the namespaces a poll stores for a cluster are the names of the
\* remote listing that are in the claimed allow-set, in listing order with
\* duplicates kept, and the empty list when the listing failed.
C19_StoredIsAllowedSubsequence ==
    \A b \in 1..Len(polls) : \A t \in 1..NumClusters :
        \A res \in polls[b].listed[t] :
            m.clusters[t].namespaces =
                IF res.err THEN <<>> ELSE AllowedSubsequence(res.items)
====
